---- MODULE Spec2Model ----
(***************************************************************************)
(* TripMate front end: the Itinerary component (event list, add / delete,  *)
(* grouping by date, export and e-mail rendering) and the currency         *)
(* converter (rate table, rate lookup, conversion).                        *)
(*                                                                         *)
(* Text is a sequence of tokens (strings); the token "\n" is a line break. *)
(* A date or a time is the string the <input> holds; ParseDate/ParseTime   *)
(* give its fields and DateMinutes the instant `new Date(...)` stands for. *)
(***************************************************************************)
EXTENDS Integers, Sequences, FiniteSets, Bags, TLC

VARIABLES
    events,        \* Itinerary: useState([]) -- the event list shown
    loading,       \* Itinerary: useState(true)
    adding,        \* Itinerary: useState(false)
    showAddForm,   \* Itinerary: useState(false)
    newEvent,      \* Itinerary: the add form
    toast,         \* the toast raised by the handler step just taken
    createReqs,    \* POST /events requests awaiting their response
    deleteReqs,    \* DELETE /events/{id} requests awaiting their response
    serverEvents,  \* the events the API holds, in the order GET /events lists them
    nextId,        \* the next identifier the API assigns
    download,      \* the file handed to the browser by exportItinerary
    mailto,        \* the mail compose window opened by emailItinerary
    amount,           \* CurrencyConverter: useState('100')
    fromCurrency,     \* CurrencyConverter: useState('USD')
    toCurrency,       \* CurrencyConverter: useState('EUR')
    convertedAmount,  \* CurrencyConverter: useState('')
    customRates,      \* CurrencyConverter (client-side table): useState(exchangeRates)
    currencies,          \* CurrencyConverter (API): useState([])
    exchangeRatesState,  \* CurrencyConverter (API): the exchangeRates state, useState([])
    ratesLoading,        \* CurrencyConverter (API): the loading state, useState(true)
    converting,          \* CurrencyConverter (API): useState(false)
    convertReqs,         \* POST /convert requests awaiting their response
    updateReqs,          \* PUT /exchange-rates/{from}/{to} requests awaiting their response
    serverRates,         \* the rate table the API holds
    tripTypes,       \* PackingList (API): useState([])
    selectedTrip,    \* PackingList (API): useState(null)
    newItem,         \* PackingList (API): useState('')
    tripsLoading,    \* PackingList (API): the loading state, useState(true)
    addingItem,      \* PackingList (API): the adding state, useState(false)
    tripReqs,        \* GET /trip-types/{id} requests awaiting their response
    toggleReqs,      \* PUT .../items/{itemId} requests awaiting their response, a bag
    addItemReqs,     \* POST .../items requests awaiting their response
    serverTrips,     \* the trip types the API holds
    activeTab        \* App: the tab whose component is mounted

itinVars == <<events, loading, adding, showAddForm, newEvent, toast, createReqs,
              deleteReqs, serverEvents, nextId, download, mailto>>

rateVars == <<amount, fromCurrency, toCurrency, convertedAmount, customRates>>

\* the itinerary's state apart from the toast
itinState == <<events, loading, adding, showAddForm, newEvent, createReqs,
               deleteReqs, serverEvents, nextId, download, mailto>>

convVars == <<currencies, exchangeRatesState, ratesLoading, converting,
              convertReqs, updateReqs, serverRates>>

packVars == <<tripTypes, selectedTrip, newItem, tripsLoading, addingItem,
              tripReqs, toggleReqs, addItemReqs, serverTrips>>

vars == <<itinVars, rateVars, convVars, packVars, activeTab>>

-----------------------------------------------------------------------------
(* Bounds *)

\* events the user may create in one run
MaxCreates == 1
\* DELETE requests that may be in flight together
MaxDeletesInFlight == 2
\* longest event list handed to the export formatter
MaxExportEvents == 2

-----------------------------------------------------------------------------
(* Dates and times *)

ParseDate(d) ==
    CASE d = "2025-07-15" -> <<2025, 7, 15>>
      [] d = "2025-07-16" -> <<2025, 7, 16>>
      [] d = "2025-08-01" -> <<2025, 8, 1>>

ParseTime(t) ==
    CASE t = "08:30" -> <<8, 30>>
      [] t = "10:00" -> <<10, 0>>
      [] t = "15:00" -> <<15, 0>>

IsLeap(y) == (y % 4 = 0 /\ y % 100 # 0) \/ y % 400 = 0

DaysBeforeMonth(y, m) ==
    LET cum == <<0, 31, 59, 90, 120, 151, 181, 212, 243, 273, 304, 334>>
    IN  cum[m] + (IF m > 2 /\ IsLeap(y) THEN 1 ELSE 0)

LeapDaysSince1970(y) ==
    Cardinality({k \in 1970..(y - 1) : IsLeap(k)})

\* new Date(`${date} ${time}`): the local instant, here in minutes since 1970-01-01 00:00
DateMinutes(date, time) ==
    LET dt == ParseDate(date)
        tm == ParseTime(time)
        days == 365 * (dt[1] - 1970) + LeapDaysSince1970(dt[1])
                  + DaysBeforeMonth(dt[1], dt[2]) + (dt[3] - 1)
    IN  (days * 24 + tm[1]) * 60 + tm[2]

-----------------------------------------------------------------------------
(* The add form *)

EmptyForm ==
    [title |-> <<>>, date |-> "", time |-> "", location |-> <<>>,
     description |-> <<>>, type |-> "activity"]

Titles == {<<>>, <<"Louvre">>}
Dates == {"", "2025-07-16", "2025-08-01"}
Times == {"", "08:30", "10:00"}
Locations == {<<>>}
Descriptions == {<<>>}

FormFields == {"title", "date", "time", "location", "description"}

FieldValues(f) ==
    CASE f = "title" -> Titles
      [] f = "date" -> Dates
      [] f = "time" -> Times
      [] f = "location" -> Locations
      [] f = "description" -> Descriptions

NoToast == ""

-----------------------------------------------------------------------------
(* The API's events *)

SeedHotel ==
    [id |-> 1, title |-> <<"Hotel">>, date |-> "2025-07-15", time |-> "15:00",
     location |-> <<"Beverly">>, description |-> <<"Suite">>, type |-> "accommodation"]

SeedBeach ==
    [id |-> 2, title |-> <<"Beach">>, date |-> "2025-07-16", time |-> "10:00",
     location |-> <<"Pier">>, description |-> <<"Relax", "\n", "Bikes">>, type |-> "activity"]

SeedSnorkel ==
    [id |-> 3, title |-> <<"Snorkel">>, date |-> "2025-07-16", time |-> "10:00",
     location |-> <<>>, description |-> <<>>, type |-> "activity"]

\* what GET /events may list when the component mounts
SeedLists ==
    {<<>>, <<SeedHotel, SeedBeach>>, <<SeedBeach, SeedHotel>>, <<SeedSnorkel, SeedBeach>>}

FirstFreeId == 4

EventIds == 1..(FirstFreeId + MaxCreates - 1)

\* POST /events: the stored event is the payload under a fresh identifier
ServerCreateEvent(payload, id) ==
    [id |-> id, title |-> payload.title, date |-> payload.date, time |-> payload.time,
     location |-> payload.location, description |-> payload.description,
     type |-> payload.type]

\* a filter whose test is inverted
RECURSIVE FilterKeepId(_, _)
FilterKeepId(s, id) ==
    IF s = <<>> THEN <<>>
    ELSE IF s[1].id = id THEN <<s[1]>> \o FilterKeepId(Tail(s), id)
    ELSE FilterKeepId(Tail(s), id)

\* prev.filter(event => event.id !== eventId)
RECURSIVE FilterOutId(_, _)
FilterOutId(s, id) ==
    IF s = <<>> THEN <<>>
    ELSE IF s[1].id # id THEN <<s[1]>> \o FilterOutId(Tail(s), id)
    ELSE FilterOutId(Tail(s), id)

\* DELETE /events/{id}: the event is gone afterwards, whether it was there or not
ServerDeleteEvent(s, id) == FilterOutId(s, id)

-----------------------------------------------------------------------------
(* addEvent's sort *)

CompareEvents(a, b) == DateMinutes(a.date, a.time) - DateMinutes(b.date, b.time)

\* a sort that is not stable: the element goes before its equals
RECURSIVE InsertSortedBeforeTies(_, _)
InsertSortedBeforeTies(s, x) ==
    IF s = <<>> THEN <<x>>
    ELSE IF CompareEvents(x, s[Len(s)]) <= 0
         THEN Append(InsertSortedBeforeTies(SubSeq(s, 1, Len(s) - 1), x), s[Len(s)])
         ELSE Append(s, x)

RECURSIVE InsertSorted(_, _)
InsertSorted(s, x) ==
    IF s = <<>> THEN <<x>>
    ELSE IF CompareEvents(x, s[Len(s)]) < 0
         THEN Append(InsertSorted(SubSeq(s, 1, Len(s) - 1), x), s[Len(s)])
         ELSE Append(s, x)

\* Array.prototype.sort with the comparator above: a stable sort
RECURSIVE SortEvents(_)
SortEvents(s) ==
    IF s = <<>> THEN <<>>
    ELSE InsertSorted(SortEvents(SubSeq(s, 1, Len(s) - 1)), s[Len(s)])

\* a validation that looks at the title alone
MissingTitleOnly(f) == f.title = <<>>

\* !newEvent.title || !newEvent.date || !newEvent.time
MissingInformation(f) == f.title = <<>> \/ f.date = "" \/ f.time = ""

\* an update that inserts the created event twice
WithCreatedEventTwice(prev, createdEvent) == Append(Append(prev, createdEvent), createdEvent)

\* [...prev, createdEvent]
WithCreatedEvent(prev, createdEvent) == Append(prev, createdEvent)

RemoveAt(s, i) == SubSeq(s, 1, i - 1) \o SubSeq(s, i + 1, Len(s))

InFlightDeletes ==
    LET RECURSIVE Sum(_)
        Sum(S) == IF S = {} THEN 0
                  ELSE LET x == CHOOSE y \in S : TRUE
                       IN  deleteReqs[x] + Sum(S \ {x})
    IN  Sum(EventIds)

-----------------------------------------------------------------------------
(* groupEventsByDate and the two text renderings *)

KeyIndex(groups, date) ==
    IF \E k \in DOMAIN groups : groups[k].date = date
    THEN CHOOSE k \in DOMAIN groups : groups[k].date = date
    ELSE 0

\* a reduce step that puts the event at the head of its group
GroupStepUnshift(groups, event) ==
    LET withKey == IF KeyIndex(groups, event.date) = 0
                   THEN Append(groups, [date |-> event.date, dayEvents |-> <<>>])
                   ELSE groups
        k == KeyIndex(withKey, event.date)
    IN  [withKey EXCEPT ![k].dayEvents = <<event>> \o @]

\* one step of the reduce: groups[date] is created on first use, then pushed to
GroupStep(groups, event) ==
    LET withKey == IF KeyIndex(groups, event.date) = 0
                   THEN Append(groups, [date |-> event.date, dayEvents |-> <<>>])
                   ELSE groups
        k == KeyIndex(withKey, event.date)
    IN  [withKey EXCEPT ![k].dayEvents = Append(@, event)]

RECURSIVE GroupReduce(_, _)
GroupReduce(groups, s) ==
    IF s = <<>> THEN groups ELSE GroupReduce(GroupStep(groups, s[1]), Tail(s))

\* Object.entries(groupEventsByDate(events)): the date keys in insertion order
GroupEventsByDate(evs) == GroupReduce(<<>>, evs)

RECURSIVE Join(_, _)
Join(parts, sep) ==
    IF parts = <<>> THEN <<>>
    ELSE IF Len(parts) = 1 THEN parts[1]
    ELSE parts[1] \o sep \o Join(Tail(parts), sep)

\* a block that ends without its separator line
ExportBlockNoSeparator(event) ==
    event.title \o <<"\n", event.date, " at ", event.time, "\n">> \o event.location
        \o <<"\n">> \o event.description \o <<"\n">>

\* `${title}\n${date} at ${time}\n${location}\n${description}\n---\n`
ExportBlock(event) ==
    event.title \o <<"\n", event.date, " at ", event.time, "\n">> \o event.location
        \o <<"\n">> \o event.description \o <<"\n", "---", "\n">>

\* `${title}\n${date} at ${time}\n${location}\n${description}\n\n`
EmailBlock(event) ==
    event.title \o <<"\n", event.date, " at ", event.time, "\n">> \o event.location
        \o <<"\n">> \o event.description \o <<"\n", "\n">>

ExportContent(evs) == Join([i \in DOMAIN evs |-> ExportBlock(evs[i])], <<"\n">>)

EmailText(evs) == Join([i \in DOMAIN evs |-> EmailBlock(evs[i])], <<>>)

\* encodeURIComponent, token by token: line break, blank and colon are escaped
EncodeToken(t) ==
    CASE t = "\n" -> "%0A"
      [] t = " at " -> "%20at%20"
      [] t = "08:30" -> "08%3A30"
      [] t = "10:00" -> "10%3A00"
      [] t = "15:00" -> "15%3A00"
      [] t = "My Trip Itinerary" -> "My%20Trip%20Itinerary"
      [] OTHER -> t

EncodeURIComponent(text) == [i \in DOMAIN text |-> EncodeToken(text[i])]

-----------------------------------------------------------------------------
(* Currency converter: numbers, the rate table, lookup and conversion.     *)
(* A rate is held in units of 1/10000; an amount is a whole number; a      *)
(* converted amount is held in hundredths, as toFixed(2) prints it.        *)

\* the value parseFloat gives for an emptied input
NaN == 0 - 999999999

RateScale == 10000

Currencies == {"USD", "EUR", "GBP", "JPY", "CAD", "AUD"}

exchangeRates ==
    [p \in {<<"USD", "EUR">>, <<"USD", "GBP">>, <<"USD", "JPY">>,
            <<"EUR", "USD">>, <<"GBP", "USD">>, <<"JPY", "USD">>} |->
        [rate |-> CASE p = <<"USD", "EUR">> -> 8500
                    [] p = <<"USD", "GBP">> -> 7300
                    [] p = <<"USD", "JPY">> -> 1102500
                    [] p = <<"EUR", "USD">> -> 11800
                    [] p = <<"GBP", "USD">> -> 13700
                    [] p = <<"JPY", "USD">> -> 91,
         lastUpdated |-> "2025-07-10"]]

\* the amounts typed or picked, and the rates typed into the settings
AmountInputs == {"", "0", "100", "-5"}
RateInputs == {"", "0", "0.9", "-1"}
EditedPairs == {<<"USD", "EUR">>, <<"EUR", "USD">>}

\* parseFloat of an amount input: whole units
ParseAmount(s) ==
    CASE s = "" -> NaN
      [] s = "0" -> 0
      [] s = "100" -> 100
      [] s = "-5" -> 0 - 5

\* parseFloat of a rate input: units of 1/10000
ParseRate(s) ==
    CASE s = "" -> NaN
      [] s = "0" -> 0
      [] s = "0.9" -> 9000
      [] s = "-1" -> 0 - 10000

Abs(n) == IF n < 0 THEN 0 - n ELSE n

TruncDiv(n, d) ==
    LET q == Abs(n) \div Abs(d)
    IN  IF (n < 0) = (d < 0) THEN q ELSE 0 - q

\* n / d rounded to the nearest integer, halves away from zero (d # 0)
RoundDiv(n, d) ==
    LET q == (2 * Abs(n) + Abs(d)) \div (2 * Abs(d))
    IN  IF (n < 0) = (d < 0) THEN q ELSE 0 - q

\* customRates[key]?.rate used as a condition: undefined, 0 and NaN are falsy
StoredRate(rates, key) == IF key \in DOMAIN rates THEN rates[key].rate ELSE 0

Truthy(rate) == rate # 0 /\ rate # NaN

NotAvailable == [kind |-> "Rate not available", cents |-> 0]

\* the conversion effect: the new convertedAmount
ConversionEffect(prev, amt, from, to, rates) ==
    IF amt # ""
    THEN LET rate == StoredRate(rates, <<from, to>>)
             inverseRate == StoredRate(rates, <<to, from>>)
         IN  IF Truthy(rate)
             THEN [kind |-> "toFixed(2)",
                   cents |-> RoundDiv(ParseAmount(amt) * rate, RateScale \div 100)]
             ELSE IF Truthy(inverseRate)
                  THEN [kind |-> "toFixed(2)",
                        cents |-> RoundDiv(ParseAmount(amt) * 100 * RateScale, inverseRate)]
                  ELSE NotAvailable
    ELSE prev

WithCustomRateBothWays(prev, pair, newRate) ==
    [prev EXCEPT ![pair] = [@ EXCEPT !.rate = newRate],
                 ![<<pair[2], pair[1]>>] = [@ EXCEPT !.rate = newRate]]

\* ({ ...prev, [pair]: { ...prev[pair], rate: parseFloat(newRate) } })
WithCustomRate(prev, pair, newRate) ==
    [prev EXCEPT ![pair] = [@ EXCEPT !.rate = newRate]]

\* getCurrentRate: the stored rate, the inverse to 4 decimals, or 'N/A'
GetCurrentRate(from, to, rates) ==
    LET rate == StoredRate(rates, <<from, to>>)
        inverseRate == StoredRate(rates, <<to, from>>)
    IN  IF Truthy(rate) THEN [kind |-> "number", v |-> rate]
        ELSE IF Truthy(inverseRate)
             THEN [kind |-> "toFixed(4)", v |-> RoundDiv(RateScale * RateScale, inverseRate)]
             ELSE [kind |-> "N/A", v |-> 0]

-----------------------------------------------------------------------------
(* Currency converter backed by the API: the API's side (currencies, rate  *)
(* tables, POST /convert, PUT /exchange-rates) and the component's lookups *)

\* POST /convert requests that may be in flight together
MaxConversionsInFlight == 2
\* PUT /exchange-rates requests that may be in flight together
MaxRateUpdatesInFlight == 1

\* the day the session takes place, later than the stamps the tables start with
Today == "2025-07-11"

\* codes GET /currencies lists
ServerCurrencies == <<"USD", "EUR">>

UsdEur ==
    [id |-> 1, from_currency |-> "USD", to_currency |-> "EUR", rate |-> 8500,
     last_updated |-> "2025-07-10"]

EurUsd ==
    [id |-> 2, from_currency |-> "EUR", to_currency |-> "USD", rate |-> 11800,
     last_updated |-> "2025-07-10"]

\* rate tables the API may hold when the converter is opened: both directions
\* of a pair, one direction only, no rate at all
ServerTables == {<<UsdEur, EurUsd>>, <<UsdEur>>, <<>>}

\* what the user may type into the amount input, and into a rate input
ApiAmountInputs == {"", "100"}
ApiRateInputs == {"", "0", "0.9"}

\* exchangeRates.find(r => r.from_currency === from && r.to_currency === to):
\* the index of the first such entry, 0 when there is none
FindRate(table, from, to) ==
    LET hits == {i \in DOMAIN table :
                    table[i].from_currency = from /\ table[i].to_currency = to}
    IN  IF hits = {} THEN 0 ELSE CHOOSE i \in hits : \A j \in hits : i <= j

\* a rate the API accepts
ValidRate(rate) == rate # NaN /\ rate > 0

\* Convert on the API's table: the amount in cents, or no rate for the pair
ServerConvert(table, amt, from, to) ==
    LET direct == FindRate(table, from, to)
        inverse == FindRate(table, to, from)
    IN  IF from = to THEN [ok |-> TRUE, cents |-> amt * 100]
        ELSE IF direct # 0
             THEN [ok |-> TRUE,
                   cents |-> RoundDiv(amt * table[direct].rate, RateScale \div 100)]
        ELSE IF inverse # 0
             THEN [ok |-> TRUE,
                   cents |-> RoundDiv(amt * 100 * RateScale, table[inverse].rate)]
        ELSE [ok |-> FALSE, cents |-> 0]

\* Update rate on the API's table: the entry's rate and stamp are replaced
ServerUpdateRate(table, from, to, newRate) ==
    [i \in DOMAIN table |->
        IF table[i].from_currency = from /\ table[i].to_currency = to
        THEN [table[i] EXCEPT !.rate = newRate, !.last_updated = Today]
        ELSE table[i]]

\* result.converted_amount.toString()
NumberToString(cents) == [kind |-> "toString", cents |-> cents]

InverseToFixed2(rate) ==
    IF rate = NaN THEN [kind |-> "NaN", v |-> 0]
    ELSE IF rate = 0 THEN [kind |-> "Infinity", v |-> 0]
    ELSE [kind |-> "toFixed(4)", v |-> 100 * RoundDiv(RateScale * 100, rate)]

\* (1 / inverseRate.rate).toFixed(4)
InverseToFixed4(rate) ==
    IF rate = NaN THEN [kind |-> "NaN", v |-> 0]
    ELSE IF rate = 0 THEN [kind |-> "Infinity", v |-> 0]
    ELSE [kind |-> "toFixed(4)", v |-> RoundDiv(RateScale * RateScale, rate)]

\* getCurrentRate of the API-backed converter: the entry's rate, the inverse
\* of the reverse entry to 4 decimals, or 'N/A'
ApiGetCurrentRate(from, to, rates) ==
    LET rate == FindRate(rates, from, to)
        inverseRate == FindRate(rates, to, from)
    IN  IF rate # 0 THEN [kind |-> "number", v |-> rates[rate].rate]
        ELSE IF inverseRate # 0 THEN InverseToFixed4(rates[inverseRate].rate)
        ELSE [kind |-> "N/A", v |-> 0]

\* prev.map(r => r.id === rateId ? { ...r, rate: parseFloat(newRate) } : r)
WithUpdatedRate(prev, rateId, newRate) ==
    [i \in DOMAIN prev |->
        IF prev[i].id = rateId THEN [prev[i] EXCEPT !.rate = newRate] ELSE prev[i]]

-----------------------------------------------------------------------------
(* Packing list backed by the API: trip types, items, and the API's side  *)

\* items the user may add in one run
MaxItemAdds == 1
\* requests of the packing list that may be in flight together
MaxPackingRequestsInFlight == 2

\* useState(null)
NoTrip == [id |-> "", items |-> <<>>]

BeachTrip ==
    [id |-> "beach",
     items |-> <<[id |-> 1, name |-> "Sunscreen SPF 50+", category |-> "essentials",
                  packed |-> FALSE]>>]

CityTrip ==
    [id |-> "city",
     items |-> <<[id |-> 8, name |-> "Comfortable walking shoes",
                  category |-> "footwear", packed |-> FALSE]>>]

\* the trip types the API holds when the packing list is opened
SeedTrips == <<BeachTrip, CityTrip>>

\* what the user may type into the new-item input
NewItemInputs == {"", " Map"}

\* newItem.trim()
Trim(s) == IF s = " Map" THEN "Map" ELSE s

TripIndex(trips, tripId) == CHOOSE i \in DOMAIN trips : trips[i].id = tripId

\* the identifier the API gives a new item: one more than the largest in use
NextItemId(trips) ==
    LET used == UNION {{trips[i].items[j].id : j \in DOMAIN trips[i].items} :
                          i \in DOMAIN trips}
    IN  1 + CHOOSE m \in used : \A n \in used : n <= m

\* the items created through the add control so far
ItemsAdded(trips) ==
    Cardinality(UNION {{trips[i].items[j].id : j \in {k \in DOMAIN trips[i].items :
                                                    trips[i].items[k].category = "custom"}} :
                          i \in DOMAIN trips})

\* POST /trip-types/{tripId}/items: the created item
ServerNewItem(trips, name) ==
    [id |-> NextItemId(trips), name |-> name, category |-> "custom", packed |-> FALSE]

ServerAddItem(trips, tripId, name) ==
    [trips EXCEPT ![TripIndex(trips, tripId)].items = Append(@, ServerNewItem(trips, name))]

\* PUT /trip-types/{tripId}/items/{itemId} with { packed }
ServerUpdateItem(trips, tripId, itemId, packed) ==
    [trips EXCEPT ![TripIndex(trips, tripId)].items =
        [j \in DOMAIN @ |-> IF @[j].id = itemId THEN [@[j] EXCEPT !.packed = packed]
                            ELSE @[j]]]

\* a map that flips every item
ToggledItemsAll(items, itemId) ==
    [j \in DOMAIN items |-> [items[j] EXCEPT !.packed = ~items[j].packed]]

\* prev.items.map(item => item.id === itemId ? { ...item, packed: !item.packed } : item)
ToggledItems(items, itemId) ==
    [j \in DOMAIN items |->
        IF items[j].id = itemId THEN [items[j] EXCEPT !.packed = ~items[j].packed]
        ELSE items[j]]

-----------------------------------------------------------------------------
(* Itinerary: state after construction, and its handlers *)

NoDownload == [done |-> FALSE, content |-> <<>>]
NoMail == [opened |-> FALSE, subject |-> <<>>, body |-> <<>>]

\* the converter once mounted: the conversion effect has run on the initial state
ConverterMounted ==
    /\ amount = "100"
    /\ fromCurrency = "USD"
    /\ toCurrency = "EUR"
    /\ customRates = exchangeRates
    /\ convertedAmount =
          ConversionEffect([kind |-> "", cents |-> 0], "100", "USD", "EUR", exchangeRates)

\* the itinerary once constructed, before GET /events is answered
ItineraryConstructed ==
    /\ events = <<>>
    /\ loading = TRUE
    /\ adding = FALSE
    /\ showAddForm = FALSE
    /\ newEvent = EmptyForm
    /\ toast = NoToast
    /\ createReqs = <<>>
    /\ deleteReqs = [i \in EventIds |-> 0]
    /\ nextId = FirstFreeId
    /\ download = NoDownload
    /\ mailto = NoMail

\* the API-backed converter once constructed, before its data is loaded
ApiConverterConstructed ==
    /\ currencies = <<>>
    /\ exchangeRatesState = <<>>
    /\ ratesLoading = TRUE
    /\ converting = FALSE
    /\ convertReqs = {}
    /\ updateReqs = {}

\* the API-backed packing list once constructed, before GET /trip-types is answered
PackingListConstructed ==
    /\ tripTypes = <<>>
    /\ selectedTrip = NoTrip
    /\ newItem = ""
    /\ tripsLoading = TRUE
    /\ addingItem = FALSE
    /\ tripReqs = {}
    /\ toggleReqs = EmptyBag
    /\ addItemReqs = {}

\* the components of the other tabs: constructed, none of their handlers runs
OtherTabsIdle ==
    /\ ApiConverterConstructed
    /\ serverRates = <<UsdEur, EurUsd>>
    /\ PackingListConstructed
    /\ serverTrips = SeedTrips

Init ==
    /\ ItineraryConstructed
    /\ serverEvents \in SeedLists
    /\ ConverterMounted
    /\ OtherTabsIdle
    /\ activeTab = "itinerary"

\* loadEvents, GET /events answered
LoadEventsResolve ==
    /\ activeTab = "itinerary"
    /\ loading
    /\ events' = serverEvents
    /\ loading' = FALSE
    /\ toast' = NoToast
    /\ UNCHANGED <<adding, showAddForm, newEvent, createReqs, deleteReqs,
                   serverEvents, nextId, download, mailto,
                   rateVars, convVars, packVars, activeTab>>

\* loadEvents, GET /events failed
LoadEventsReject ==
    /\ activeTab = "itinerary"
    /\ loading
    /\ toast' = "Failed to load events"
    /\ loading' = FALSE
    /\ UNCHANGED <<events, adding, showAddForm, newEvent, createReqs, deleteReqs,
                   serverEvents, nextId, download, mailto,
                   rateVars, convVars, packVars, activeTab>>

\* the header's Add Event button
ToggleAddForm ==
    /\ activeTab = "itinerary"
    /\ ~loading
    /\ showAddForm' = ~showAddForm
    /\ toast' = NoToast
    /\ UNCHANGED <<events, loading, adding, newEvent, createReqs, deleteReqs,
                   serverEvents, nextId, download, mailto,
                   rateVars, convVars, packVars, activeTab>>

\* the form's Cancel button
CancelAddForm ==
    /\ activeTab = "itinerary"
    /\ ~loading
    /\ showAddForm
    /\ showAddForm' = FALSE
    /\ toast' = NoToast
    /\ UNCHANGED <<events, loading, adding, newEvent, createReqs, deleteReqs,
                   serverEvents, nextId, download, mailto,
                   rateVars, convVars, packVars, activeTab>>

\* an input of the form changes
SetNewEvent ==
    /\ activeTab = "itinerary"
    /\ ~loading
    /\ showAddForm
    /\ \E f \in FormFields : \E v \in FieldValues(f) :
          newEvent' = [newEvent EXCEPT ![f] = v]
    /\ toast' = NoToast
    /\ UNCHANGED <<events, loading, adding, showAddForm, createReqs, deleteReqs,
                   serverEvents, nextId, download, mailto,
                   rateVars, convVars, packVars, activeTab>>

\* addEvent, up to the await
AddEvent ==
    /\ activeTab = "itinerary"
    /\ ~loading
    /\ showAddForm
    /\ ~adding
    /\ IF MissingInformation(newEvent)
       THEN /\ toast' = "Missing Information"
            /\ UNCHANGED <<adding, createReqs>>
       ELSE /\ nextId + Len(createReqs) < FirstFreeId + MaxCreates
            /\ adding' = TRUE
            /\ createReqs' = Append(createReqs, newEvent)
            /\ toast' = NoToast
    /\ UNCHANGED <<events, loading, showAddForm, newEvent, deleteReqs,
                   serverEvents, nextId, download, mailto,
                   rateVars, convVars, packVars, activeTab>>

\* addEvent, after the await: the API stored the event
AddEventResolve ==
    /\ activeTab = "itinerary"
    /\ \E i \in DOMAIN createReqs :
        LET createdEvent == ServerCreateEvent(createReqs[i], nextId)
        IN  /\ serverEvents' = Append(serverEvents, createdEvent)
            /\ nextId' = nextId + 1
            /\ events' = SortEvents(WithCreatedEvent(events, createdEvent))
            /\ newEvent' = EmptyForm
            /\ showAddForm' = FALSE
            /\ toast' = "Event Added"
            /\ adding' = FALSE
            /\ createReqs' = RemoveAt(createReqs, i)
            /\ UNCHANGED <<loading, deleteReqs, download, mailto,
                   rateVars, convVars, packVars, activeTab>>

AddEventRejectStaysAdding ==
    /\ activeTab = "itinerary"
    /\ \E i \in DOMAIN createReqs :
        /\ toast' = "Failed to add event"
        /\ createReqs' = RemoveAt(createReqs, i)
        /\ UNCHANGED <<events, loading, adding, showAddForm, newEvent, deleteReqs,
                       serverEvents, nextId, download, mailto,
                   rateVars, convVars, packVars, activeTab>>

\* addEvent, after the await: the request failed
AddEventReject ==
    /\ activeTab = "itinerary"
    /\ \E i \in DOMAIN createReqs :
        /\ toast' = "Failed to add event"
        /\ adding' = FALSE
        /\ createReqs' = RemoveAt(createReqs, i)
        /\ UNCHANGED <<events, loading, showAddForm, newEvent, deleteReqs,
                       serverEvents, nextId, download, mailto,
                   rateVars, convVars, packVars, activeTab>>

\* deleteEvent, up to the await: the Delete button of a listed event
DeleteEvent ==
    /\ activeTab = "itinerary"
    /\ ~loading
    /\ InFlightDeletes < MaxDeletesInFlight
    /\ \E i \in DOMAIN events :
          deleteReqs' = [deleteReqs EXCEPT ![events[i].id] = @ + 1]
    /\ toast' = NoToast
    /\ UNCHANGED <<events, loading, adding, showAddForm, newEvent, createReqs,
                   serverEvents, nextId, download, mailto,
                   rateVars, convVars, packVars, activeTab>>

DeleteEventResolveKeepsEvent ==
    /\ activeTab = "itinerary"
    /\ \E eventId \in EventIds :
        /\ deleteReqs[eventId] > 0
        /\ deleteReqs' = [deleteReqs EXCEPT ![eventId] = @ - 1]
        /\ serverEvents' = ServerDeleteEvent(serverEvents, eventId)
        /\ toast' = "Event Deleted"
        /\ UNCHANGED <<events, loading, adding, showAddForm, newEvent, createReqs,
                       nextId, download, mailto,
                   rateVars, convVars, packVars, activeTab>>

\* deleteEvent, after the await: the API answered
DeleteEventResolve ==
    /\ activeTab = "itinerary"
    /\ \E eventId \in EventIds :
        /\ deleteReqs[eventId] > 0
        /\ deleteReqs' = [deleteReqs EXCEPT ![eventId] = @ - 1]
        /\ serverEvents' = ServerDeleteEvent(serverEvents, eventId)
        /\ events' = FilterOutId(events, eventId)
        /\ toast' = "Event Deleted"
        /\ UNCHANGED <<loading, adding, showAddForm, newEvent, createReqs,
                       nextId, download, mailto,
                   rateVars, convVars, packVars, activeTab>>

\* deleteEvent, after the await: the request failed
DeleteEventReject ==
    /\ activeTab = "itinerary"
    /\ \E eventId \in EventIds :
        /\ deleteReqs[eventId] > 0
        /\ deleteReqs' = [deleteReqs EXCEPT ![eventId] = @ - 1]
        /\ toast' = "Failed to delete event"
        /\ UNCHANGED <<events, loading, adding, showAddForm, newEvent, createReqs,
                       serverEvents, nextId, download, mailto,
                   rateVars, convVars, packVars, activeTab>>

Next ==
    \/ LoadEventsResolve
    \/ LoadEventsReject
    \/ ToggleAddForm
    \/ CancelAddForm
    \/ SetNewEvent
    \/ AddEvent
    \/ AddEventResolve
    \/ AddEventReject
    \/ DeleteEvent
    \/ DeleteEventResolve
    \/ DeleteEventReject

Spec == Init /\ [][Next]_vars

-----------------------------------------------------------------------------
(* The two renderings applied to bounded event lists *)

ExportKinds ==
    [title : {<<"Louvre">>}, date : {"2025-07-16", "2025-08-01"},
     time : {"08:30", "10:00"}, location : {<<>>, <<"Paris">>},
     description : {<<>>, <<"Tickets">>, <<"Tickets", "\n", "booked">>},
     type : {"activity"}]

ExportLists ==
    UNION {{SortEvents([i \in 1..n |-> ServerCreateEvent(k[i], i)]) :
                k \in [1..n -> ExportKinds]} : n \in 0..MaxExportEvents}

InitExport ==
    /\ events \in ExportLists
    /\ loading = FALSE
    /\ adding = FALSE
    /\ showAddForm = FALSE
    /\ newEvent = EmptyForm
    /\ toast = NoToast
    /\ createReqs = <<>>
    /\ deleteReqs = [i \in EventIds |-> 0]
    /\ serverEvents = events
    /\ nextId = Len(events) + 1
    /\ download = NoDownload
    /\ mailto = NoMail
    /\ ConverterMounted
    /\ OtherTabsIdle
    /\ activeTab = "itinerary"

\* exportItinerary: the Export button
ExportItinerary ==
    /\ activeTab = "itinerary"
    /\ ~loading
    /\ download' = [done |-> TRUE, content |-> ExportContent(events)]
    /\ toast' = NoToast
    /\ UNCHANGED <<events, loading, adding, showAddForm, newEvent, createReqs,
                   deleteReqs, serverEvents, nextId, mailto,
                   rateVars, convVars, packVars, activeTab>>

\* emailItinerary: the Email button
EmailItinerary ==
    /\ activeTab = "itinerary"
    /\ ~loading
    /\ mailto' = [opened |-> TRUE,
                  subject |-> EncodeURIComponent(<<"My Trip Itinerary">>),
                  body |-> EncodeURIComponent(EmailText(events))]
    /\ toast' = NoToast
    /\ UNCHANGED <<events, loading, adding, showAddForm, newEvent, createReqs,
                   deleteReqs, serverEvents, nextId, download,
                   rateVars, convVars, packVars, activeTab>>

NextExport ==
    \/ ExportItinerary
    \/ EmailItinerary

SpecExport == InitExport /\ [][NextExport]_vars

-----------------------------------------------------------------------------
(* Currency converter (client-side rate table): its handlers, each followed  *)
(* by the conversion effect that its state change triggers                  *)

InitRate ==
    /\ ItineraryConstructed
    /\ serverEvents = <<>>
    /\ ConverterMounted
    /\ OtherTabsIdle
    /\ activeTab = "converter"

\* setAmount: the amount input or a quick-amount button
SetAmount ==
    /\ activeTab = "converter"
    /\ \E a \in AmountInputs :
        /\ amount' = a
        /\ convertedAmount' =
              ConversionEffect(convertedAmount, a, fromCurrency, toCurrency, customRates)
        /\ UNCHANGED <<fromCurrency, toCurrency, customRates, itinVars, convVars, packVars, activeTab>>

\* setFromCurrency: the From select
SetFromCurrency ==
    /\ activeTab = "converter"
    /\ \E c \in Currencies :
        /\ fromCurrency' = c
        /\ convertedAmount' =
              ConversionEffect(convertedAmount, amount, c, toCurrency, customRates)
        /\ UNCHANGED <<amount, toCurrency, customRates, itinVars, convVars, packVars, activeTab>>

\* setToCurrency: the To select
SetToCurrency ==
    /\ activeTab = "converter"
    /\ \E c \in Currencies :
        /\ toCurrency' = c
        /\ convertedAmount' =
              ConversionEffect(convertedAmount, amount, fromCurrency, c, customRates)
        /\ UNCHANGED <<amount, fromCurrency, customRates, itinVars, convVars, packVars, activeTab>>

\* swapCurrencies
SwapCurrencies ==
    /\ activeTab = "converter"
    /\ fromCurrency' = toCurrency
    /\ toCurrency' = fromCurrency
    /\ convertedAmount' =
          ConversionEffect(convertedAmount, amount, toCurrency, fromCurrency, customRates)
    /\ UNCHANGED <<amount, customRates, itinVars, convVars, packVars, activeTab>>

\* updateRate(pair, newRate): a rate input of the settings panel changes
UpdateRate ==
    /\ activeTab = "converter"
    /\ \E pair \in EditedPairs : \E newRate \in RateInputs :
        /\ customRates' = WithCustomRate(customRates, pair, ParseRate(newRate))
        /\ convertedAmount' =
              ConversionEffect(convertedAmount, amount, fromCurrency, toCurrency,
                               customRates')
        /\ UNCHANGED <<amount, fromCurrency, toCurrency, itinVars, convVars, packVars, activeTab>>

NextRate ==
    \/ SetAmount
    \/ SetFromCurrency
    \/ SetToCurrency
    \/ SwapCurrencies
    \/ UpdateRate

SpecRate == InitRate /\ [][NextRate]_vars

-----------------------------------------------------------------------------
(* Currency converter backed by the API: its handlers, split at each await *)

\* the inputs of the API-backed converter once constructed: nothing converted yet
ApiConverterInputs ==
    /\ amount = "100"
    /\ fromCurrency = "USD"
    /\ toCurrency = "EUR"
    /\ convertedAmount = [kind |-> "", cents |-> 0]
    /\ customRates = exchangeRates

InitRateApi ==
    /\ ItineraryConstructed
    /\ serverEvents = <<>>
    /\ ApiConverterInputs
    /\ ApiConverterConstructed
    /\ serverRates \in ServerTables
    /\ PackingListConstructed
    /\ serverTrips = SeedTrips
    /\ activeTab = "converter"

\* loadInitialData, after the await: both lists arrived
LoadInitialDataResolve ==
    /\ activeTab = "converter"
    /\ ratesLoading
    /\ currencies' = ServerCurrencies
    /\ exchangeRatesState' = serverRates
    /\ ratesLoading' = FALSE
    /\ toast' = NoToast
    /\ UNCHANGED <<converting, convertReqs, updateReqs, serverRates,
                   itinState, rateVars, packVars, activeTab>>

\* loadInitialData, after the await: a request failed
LoadInitialDataReject ==
    /\ activeTab = "converter"
    /\ ratesLoading
    /\ ratesLoading' = FALSE
    /\ toast' = "Failed to load currency data"
    /\ UNCHANGED <<currencies, exchangeRatesState, converting, convertReqs,
                   updateReqs, serverRates,
                   itinState, rateVars, packVars, activeTab>>

\* handleConversion, up to the await
HandleConversion(amt, from, to) ==
    IF amt = ""
    THEN UNCHANGED <<converting, convertReqs>>
    ELSE /\ converting' = TRUE
         /\ convertReqs' = convertReqs \cup
               {[amount |-> ParseAmount(amt), from |-> from, to |-> to]}
         /\ Cardinality(convertReqs') <= MaxConversionsInFlight

\* the auto-convert effect, run when amount, fromCurrency or toCurrency changed
AutoConvertEffect(amt, from, to) ==
    IF /\ <<amt, from, to>> # <<amount, fromCurrency, toCurrency>>
       /\ amt # ""
       /\ Len(currencies) > 0
    THEN HandleConversion(amt, from, to)
    ELSE UNCHANGED <<converting, convertReqs>>

\* setAmount: the amount input or a quick-amount button
SetAmountApi ==
    /\ activeTab = "converter"
    /\ ~ratesLoading
    /\ \E a \in ApiAmountInputs :
          /\ amount' = a
          /\ AutoConvertEffect(a, fromCurrency, toCurrency)
    /\ toast' = NoToast
    /\ UNCHANGED <<fromCurrency, toCurrency, convertedAmount, customRates,
                   currencies, exchangeRatesState, ratesLoading, updateReqs,
                   serverRates, itinState, packVars, activeTab>>

\* setFromCurrency: the From select, its options being the loaded currencies
SetFromCurrencyApi ==
    /\ activeTab = "converter"
    /\ ~ratesLoading
    /\ \E i \in DOMAIN currencies :
          /\ fromCurrency' = currencies[i]
          /\ AutoConvertEffect(amount, currencies[i], toCurrency)
    /\ toast' = NoToast
    /\ UNCHANGED <<amount, toCurrency, convertedAmount, customRates,
                   currencies, exchangeRatesState, ratesLoading, updateReqs,
                   serverRates, itinState, packVars, activeTab>>

\* setToCurrency: the To select
SetToCurrencyApi ==
    /\ activeTab = "converter"
    /\ ~ratesLoading
    /\ \E i \in DOMAIN currencies :
          /\ toCurrency' = currencies[i]
          /\ AutoConvertEffect(amount, fromCurrency, currencies[i])
    /\ toast' = NoToast
    /\ UNCHANGED <<amount, fromCurrency, convertedAmount, customRates,
                   currencies, exchangeRatesState, ratesLoading, updateReqs,
                   serverRates, itinState, packVars, activeTab>>

\* swapCurrencies
SwapCurrenciesApi ==
    /\ activeTab = "converter"
    /\ ~ratesLoading
    /\ fromCurrency' = toCurrency
    /\ toCurrency' = fromCurrency
    /\ AutoConvertEffect(amount, toCurrency, fromCurrency)
    /\ toast' = NoToast
    /\ UNCHANGED <<amount, convertedAmount, customRates,
                   currencies, exchangeRatesState, ratesLoading, updateReqs,
                   serverRates, itinState, packVars, activeTab>>

\* handleConversion, after the await: the API answered with the converted amount
HandleConversionResolve ==
    /\ activeTab = "converter"
    /\ \E req \in convertReqs :
        LET result == ServerConvert(serverRates, req.amount, req.from, req.to)
        IN  /\ result.ok
            /\ convertedAmount' = NumberToString(result.cents)
            /\ converting' = FALSE
            /\ convertReqs' = convertReqs \ {req}
            /\ toast' = NoToast
            /\ UNCHANGED <<amount, fromCurrency, toCurrency, customRates,
                           currencies, exchangeRatesState, ratesLoading, updateReqs,
                           serverRates, itinState, packVars, activeTab>>

HandleConversionRejectKeepsAmount ==
    /\ activeTab = "converter"
    /\ \E req \in convertReqs :
        /\ toast' = "Conversion Error"
        /\ converting' = FALSE
        /\ convertReqs' = convertReqs \ {req}
        /\ UNCHANGED <<rateVars, currencies, exchangeRatesState, ratesLoading,
                       updateReqs, serverRates, itinState, packVars, activeTab>>

\* handleConversion, after the await: the API found no rate, or the request failed
HandleConversionReject ==
    /\ activeTab = "converter"
    /\ \E req \in convertReqs :
        /\ convertedAmount' = NotAvailable
        /\ toast' = "Conversion Error"
        /\ converting' = FALSE
        /\ convertReqs' = convertReqs \ {req}
        /\ UNCHANGED <<amount, fromCurrency, toCurrency, customRates,
                       currencies, exchangeRatesState, ratesLoading, updateReqs,
                       serverRates, itinState, packVars, activeTab>>

\* updateRate(rateId, newRate), up to the await: a rate input of the settings panel
UpdateRateApi ==
    /\ activeTab = "converter"
    /\ ~ratesLoading
    /\ \E i \in DOMAIN exchangeRatesState : \E newRate \in ApiRateInputs :
          LET rate == exchangeRatesState[i]
          IN  /\ updateReqs' = updateReqs \cup
                    {[rateId |-> rate.id, from_currency |-> rate.from_currency,
                      to_currency |-> rate.to_currency, newRate |-> ParseRate(newRate)]}
              /\ Cardinality(updateReqs') <= MaxRateUpdatesInFlight
    /\ toast' = NoToast
    /\ UNCHANGED <<rateVars, currencies, exchangeRatesState, ratesLoading, converting,
                   convertReqs, serverRates, itinState, packVars, activeTab>>

\* updateRate, after the await: the API stored the rate
UpdateRateResolve ==
    /\ activeTab = "converter"
    /\ \E req \in updateReqs :
        /\ ValidRate(req.newRate)
        /\ serverRates' = ServerUpdateRate(serverRates, req.from_currency,
                                           req.to_currency, req.newRate)
        /\ exchangeRatesState' = WithUpdatedRate(exchangeRatesState, req.rateId, req.newRate)
        /\ toast' = "Rate Updated"
        /\ updateReqs' = updateReqs \ {req}
        /\ UNCHANGED <<rateVars, currencies, ratesLoading, converting, convertReqs,
                       itinState, packVars, activeTab>>

UpdateRateRejectApplied ==
    /\ activeTab = "converter"
    /\ \E req \in updateReqs :
        /\ toast' = "Failed to update exchange rate"
        /\ exchangeRatesState' = WithUpdatedRate(exchangeRatesState, req.rateId, req.newRate)
        /\ updateReqs' = updateReqs \ {req}
        /\ UNCHANGED <<rateVars, currencies, ratesLoading,
                       converting, convertReqs, serverRates,
                       itinState, packVars, activeTab>>

\* updateRate, after the await: the API refused the rate, or the request failed
UpdateRateReject ==
    /\ activeTab = "converter"
    /\ \E req \in updateReqs :
        /\ toast' = "Failed to update exchange rate"
        /\ updateReqs' = updateReqs \ {req}
        /\ UNCHANGED <<rateVars, currencies, exchangeRatesState, ratesLoading,
                       converting, convertReqs, serverRates,
                       itinState, packVars, activeTab>>

NextRateApi ==
    \/ LoadInitialDataResolve
    \/ LoadInitialDataReject
    \/ SetAmountApi
    \/ SetFromCurrencyApi
    \/ SetToCurrencyApi
    \/ SwapCurrenciesApi
    \/ HandleConversionResolve
    \/ HandleConversionReject
    \/ UpdateRateApi
    \/ UpdateRateResolve
    \/ UpdateRateReject

SpecRateApi == InitRateApi /\ [][NextRateApi]_vars

-----------------------------------------------------------------------------
(* Packing list backed by the API: its handlers, split at each await *)

PackingRequestsInFlight ==
    Cardinality(tripReqs) + BagCardinality(toggleReqs) + Cardinality(addItemReqs)

InitPacking ==
    /\ ItineraryConstructed
    /\ serverEvents = <<>>
    /\ ConverterMounted
    /\ ApiConverterConstructed
    /\ serverRates = <<UsdEur, EurUsd>>
    /\ PackingListConstructed
    /\ serverTrips = SeedTrips
    /\ activeTab = "packing"

\* loadTripTypes, after the await: the trip types arrived
LoadTripTypesResolve ==
    /\ activeTab = "packing"
    /\ tripsLoading
    /\ tripTypes' = serverTrips
    /\ selectedTrip' = IF Len(serverTrips) > 0 THEN serverTrips[1] ELSE selectedTrip
    /\ tripsLoading' = FALSE
    /\ toast' = NoToast
    /\ UNCHANGED <<newItem, addingItem, tripReqs, toggleReqs, addItemReqs,
                   serverTrips, itinState, rateVars, convVars, activeTab>>

\* loadTripTypes, after the await: the request failed
LoadTripTypesReject ==
    /\ activeTab = "packing"
    /\ tripsLoading
    /\ tripsLoading' = FALSE
    /\ toast' = "Failed to load trip types"
    /\ UNCHANGED <<tripTypes, selectedTrip, newItem, addingItem, tripReqs,
                   toggleReqs, addItemReqs, serverTrips,
                   itinState, rateVars, convVars, activeTab>>

\* handleTripChange(trip), up to the await: a trip card is clicked
HandleTripChange ==
    /\ activeTab = "packing"
    /\ ~tripsLoading
    /\ selectedTrip # NoTrip
    /\ \E i \in DOMAIN tripTypes :
          /\ tripReqs' = tripReqs \cup {tripTypes[i].id}
          /\ tripTypes[i].id \notin tripReqs
          /\ PackingRequestsInFlight < MaxPackingRequestsInFlight
    /\ toast' = NoToast
    /\ UNCHANGED <<tripTypes, selectedTrip, newItem, tripsLoading, addingItem,
                   toggleReqs, addItemReqs, serverTrips,
                   itinState, rateVars, convVars, activeTab>>

\* handleTripChange, after the await: the trip arrived
HandleTripChangeResolve ==
    /\ activeTab = "packing"
    /\ \E tripId \in tripReqs :
        /\ selectedTrip' = serverTrips[TripIndex(serverTrips, tripId)]
        /\ tripReqs' = tripReqs \ {tripId}
        /\ toast' = NoToast
        /\ UNCHANGED <<tripTypes, newItem, tripsLoading, addingItem,
                       toggleReqs, addItemReqs, serverTrips,
                       itinState, rateVars, convVars, activeTab>>

\* handleTripChange, after the await: the request failed
HandleTripChangeReject ==
    /\ activeTab = "packing"
    /\ \E tripId \in tripReqs :
        /\ tripReqs' = tripReqs \ {tripId}
        /\ toast' = "Failed to load trip details"
        /\ UNCHANGED <<tripTypes, selectedTrip, newItem, tripsLoading, addingItem,
                       toggleReqs, addItemReqs, serverTrips,
                       itinState, rateVars, convVars, activeTab>>

\* the new-item input changes
SetNewItem ==
    /\ activeTab = "packing"
    /\ ~tripsLoading
    /\ selectedTrip # NoTrip
    /\ ~addingItem
    /\ \E v \in NewItemInputs : newItem' = v
    /\ toast' = NoToast
    /\ UNCHANGED <<tripTypes, selectedTrip, tripsLoading, addingItem, tripReqs,
                   toggleReqs, addItemReqs, serverTrips,
                   itinState, rateVars, convVars, activeTab>>

ToggleItemOptimistic ==
    /\ activeTab = "packing"
    /\ ~tripsLoading
    /\ selectedTrip # NoTrip
    /\ \E j \in DOMAIN selectedTrip.items :
          LET item == selectedTrip.items[j]
          IN  /\ toggleReqs' = toggleReqs (+)
                    SetToBag({[tripId |-> selectedTrip.id, itemId |-> item.id,
                               packed |-> ~item.packed]})
              /\ PackingRequestsInFlight < MaxPackingRequestsInFlight
              /\ selectedTrip' = [selectedTrip EXCEPT !.items = ToggledItems(@, item.id)]
    /\ toast' = NoToast
    /\ UNCHANGED <<tripTypes, newItem, tripsLoading, addingItem,
                   tripReqs, addItemReqs, serverTrips,
                   itinState, rateVars, convVars, activeTab>>

\* toggleItem(itemId), up to the await: the checkbox of a listed item
ToggleItem ==
    /\ activeTab = "packing"
    /\ ~tripsLoading
    /\ selectedTrip # NoTrip
    /\ \E j \in DOMAIN selectedTrip.items :
          LET item == selectedTrip.items[j]
          IN  /\ toggleReqs' = toggleReqs (+)
                    SetToBag({[tripId |-> selectedTrip.id, itemId |-> item.id,
                               packed |-> ~item.packed]})
              /\ PackingRequestsInFlight < MaxPackingRequestsInFlight
    /\ toast' = NoToast
    /\ UNCHANGED <<tripTypes, selectedTrip, newItem, tripsLoading, addingItem,
                   tripReqs, addItemReqs, serverTrips,
                   itinState, rateVars, convVars, activeTab>>

\* toggleItem, after the await: the API stored the flag
ToggleItemResolve ==
    /\ activeTab = "packing"
    /\ \E req \in BagToSet(toggleReqs) :
        /\ serverTrips' = ServerUpdateItem(serverTrips, req.tripId, req.itemId, req.packed)
        /\ selectedTrip' =
              [selectedTrip EXCEPT !.items = ToggledItems(@, req.itemId)]
        /\ toast' = "Updated"
        /\ toggleReqs' = toggleReqs (-) SetToBag({req})
        /\ UNCHANGED <<tripTypes, newItem, tripsLoading, addingItem, tripReqs,
                       addItemReqs, itinState, rateVars, convVars, activeTab>>

\* toggleItem, after the await: the request failed
ToggleItemReject ==
    /\ activeTab = "packing"
    /\ \E req \in BagToSet(toggleReqs) :
        /\ toast' = "Failed to update item"
        /\ toggleReqs' = toggleReqs (-) SetToBag({req})
        /\ UNCHANGED <<tripTypes, selectedTrip, newItem, tripsLoading, addingItem,
                       tripReqs, addItemReqs, serverTrips,
                       itinState, rateVars, convVars, activeTab>>

\* addItem, up to the await: the Add button, or Enter in the input
AddItem ==
    /\ activeTab = "packing"
    /\ ~tripsLoading
    /\ selectedTrip # NoTrip
    /\ ~addingItem
    /\ IF Trim(newItem) = ""
       THEN UNCHANGED <<addingItem, addItemReqs>>
       ELSE /\ ItemsAdded(serverTrips) < MaxItemAdds
            /\ PackingRequestsInFlight < MaxPackingRequestsInFlight
            /\ addingItem' = TRUE
            /\ addItemReqs' = addItemReqs \cup
                  {[tripId |-> selectedTrip.id, name |-> Trim(newItem)]}
    /\ toast' = NoToast
    /\ UNCHANGED <<tripTypes, selectedTrip, newItem, tripsLoading, tripReqs,
                   toggleReqs, serverTrips,
                   itinState, rateVars, convVars, activeTab>>

\* addItem, after the await: the API created the item
AddItemResolve ==
    /\ activeTab = "packing"
    /\ \E req \in addItemReqs :
        /\ serverTrips' = ServerAddItem(serverTrips, req.tripId, req.name)
        /\ selectedTrip' =
              [selectedTrip EXCEPT
                  !.items = Append(@, ServerNewItem(serverTrips, req.name))]
        /\ newItem' = ""
        /\ toast' = "Item Added"
        /\ addingItem' = FALSE
        /\ addItemReqs' = addItemReqs \ {req}
        /\ UNCHANGED <<tripTypes, tripsLoading, tripReqs, toggleReqs,
                       itinState, rateVars, convVars, activeTab>>

\* addItem, after the await: the request failed
AddItemReject ==
    /\ activeTab = "packing"
    /\ \E req \in addItemReqs :
        /\ toast' = "Failed to add item"
        /\ addingItem' = FALSE
        /\ addItemReqs' = addItemReqs \ {req}
        /\ UNCHANGED <<tripTypes, selectedTrip, newItem, tripsLoading, tripReqs,
                       toggleReqs, serverTrips,
                       itinState, rateVars, convVars, activeTab>>

NextPacking ==
    \/ LoadTripTypesResolve
    \/ LoadTripTypesReject
    \/ HandleTripChange
    \/ HandleTripChangeResolve
    \/ HandleTripChangeReject
    \/ SetNewItem
    \/ ToggleItem
    \/ ToggleItemResolve
    \/ ToggleItemReject
    \/ AddItem
    \/ AddItemResolve
    \/ AddItemReject

SpecPacking == InitPacking /\ [][NextPacking]_vars

-----------------------------------------------------------------------------
(* The API-backed application: the component of the tab that is open; the  *)
(* content of the other tabs is not mounted                                 *)

InitApi ==
    /\ activeTab \in {"packing", "itinerary", "converter"}
    /\ ItineraryConstructed
    /\ serverEvents = <<SeedHotel, SeedBeach>>
    /\ ApiConverterInputs
    /\ ApiConverterConstructed
    /\ serverRates = <<UsdEur, EurUsd>>
    /\ PackingListConstructed
    /\ serverTrips = <<BeachTrip>>

NextApi ==
    \/ Next
    \/ NextRateApi
    \/ NextPacking

SpecApi == InitApi /\ [][NextApi]_vars

-----------------------------------------------------------------------------
(* Packing list on the client-side trip types: its handlers. The items     *)
(* state of the component is held in selectedTrip.items.                   *)

\* items the user may add to the list that is shown
MaxMockItemAdds == 3

\* Date.now() at an add: later than at every earlier add
DateNow(items) == 1000 + Len(items)

\* useState(tripTypes[0]), useState(selectedTrip.items), useState('')
MockPackingListConstructed ==
    /\ tripTypes = SeedTrips
    /\ selectedTrip = SeedTrips[1]
    /\ newItem = ""
    /\ tripsLoading = FALSE
    /\ addingItem = FALSE
    /\ tripReqs = {}
    /\ toggleReqs = EmptyBag
    /\ addItemReqs = {}

InitMockPacking ==
    /\ ItineraryConstructed
    /\ serverEvents = <<>>
    /\ ConverterMounted
    /\ ApiConverterConstructed
    /\ serverRates = <<UsdEur, EurUsd>>
    /\ MockPackingListConstructed
    /\ serverTrips = SeedTrips
    /\ activeTab = "packing"

\* handleTripChange(trip): a trip card; the items are the trip's own again
MockHandleTripChange ==
    /\ activeTab = "packing"
    /\ \E i \in DOMAIN tripTypes : selectedTrip' = tripTypes[i]
    /\ UNCHANGED <<tripTypes, newItem, tripsLoading, addingItem, tripReqs, toggleReqs,
                   addItemReqs, serverTrips, itinVars, rateVars, convVars, activeTab>>

\* setNewItem: the new-item input changes
MockSetNewItem ==
    /\ activeTab = "packing"
    /\ \E v \in NewItemInputs : newItem' = v
    /\ UNCHANGED <<tripTypes, selectedTrip, tripsLoading, addingItem, tripReqs,
                   toggleReqs, addItemReqs, serverTrips,
                   itinVars, rateVars, convVars, activeTab>>

\* toggleItem(itemId), with the identifier of a listed item or of an item of
\* another trip
MockToggleItem ==
    /\ activeTab = "packing"
    /\ \E i \in DOMAIN tripTypes : \E j \in DOMAIN tripTypes[i].items :
          selectedTrip' =
              [selectedTrip EXCEPT !.items = ToggledItems(@, tripTypes[i].items[j].id)]
    /\ UNCHANGED <<tripTypes, newItem, tripsLoading, addingItem, tripReqs, toggleReqs,
                   addItemReqs, serverTrips, itinVars, rateVars, convVars, activeTab>>

\* toggleItem(itemId) with the identifier of an added item
MockToggleAddedItem ==
    /\ activeTab = "packing"
    /\ \E j \in DOMAIN selectedTrip.items :
          /\ selectedTrip.items[j].category = "custom"
          /\ selectedTrip' =
                [selectedTrip EXCEPT !.items = ToggledItems(@, selectedTrip.items[j].id)]
    /\ UNCHANGED <<tripTypes, newItem, tripsLoading, addingItem, tripReqs, toggleReqs,
                   addItemReqs, serverTrips, itinVars, rateVars, convVars, activeTab>>

\* addItem: the Add button, or Enter in the input
MockAddItem ==
    /\ activeTab = "packing"
    /\ IF Trim(newItem) = ""
       THEN UNCHANGED <<selectedTrip, newItem>>
       ELSE /\ ItemsAdded(<<selectedTrip>>) < MaxMockItemAdds
            /\ selectedTrip' =
                  [selectedTrip EXCEPT
                      !.items = Append(@, [id |-> DateNow(@), name |-> Trim(newItem),
                                           category |-> "custom", packed |-> FALSE])]
            /\ newItem' = ""
    /\ UNCHANGED <<tripTypes, tripsLoading, addingItem, tripReqs, toggleReqs,
                   addItemReqs, serverTrips, itinVars, rateVars, convVars, activeTab>>

NextMockPacking ==
    \/ MockHandleTripChange
    \/ MockSetNewItem
    \/ MockToggleItem
    \/ MockToggleAddedItem
    \/ MockAddItem

SpecMockPacking == InitMockPacking /\ [][NextMockPacking]_vars

-----------------------------------------------------------------------------
(* Properties of the itinerary *)

IdsOf(s) == {s[i].id : i \in DOMAIN s}

PositionOf(s, id) == CHOOSE k \in DOMAIN s : s[k].id = id

TupleLE(a, b) ==
    \/ a = b
    \/ \E k \in DOMAIN a : a[k] < b[k] /\ \A j \in 1..(k - 1) : a[j] = b[j]

SameDateTime(a, b) == a.date = b.date /\ a.time = b.time

\* (date, time) of a is not later than that of b
DateTimeLE(a, b) ==
    TupleLE(ParseDate(a.date) \o ParseTime(a.time), ParseDate(b.date) \o ParseTime(b.time))

IsChronological(s) == \A i, j \in DOMAIN s : i < j => DateTimeLE(s[i], s[j])

FormIncomplete(f) == f.title = <<>> \/ f.date = "" \/ f.time = ""

\* C1: from a state whose form lacks the title, the date or the time no step
\* issues a create request, and the step that raises the "Missing Information"
\* toast leaves the event list, the adding flag, the API's events and the next
\* identifier as they were.
C1_MissingInformationRejected ==
    [][FormIncomplete(newEvent) =>
          /\ Len(createReqs') <= Len(createReqs)
          /\ (toast' = "Missing Information" =>
                 /\ events' = events
                 /\ adding' = adding
                 /\ serverEvents' = serverEvents
                 /\ nextId' = nextId)]_vars

C1_Witness ==
    /\ toast = "Missing Information"
    /\ newEvent.title # <<>>
    /\ newEvent.date = ""
    /\ events # <<>>
    /\ createReqs = <<>>

\* C2: a successful add leaves the previous events plus the created one (the
\* payload under an identifier no listed event had), ascending by (date, time),
\* events of equal (date, time) in their previous relative order and the created
\* event after every previous event of its (date, time).
C2_AddSortsStably ==
    [][toast' = "Event Added" =>
          \E j \in DOMAIN events' :
              LET created == events'[j]
                  before == Append(events, created)
              IN  /\ created.id \notin IdsOf(events)
                  /\ \E i \in DOMAIN createReqs :
                        /\ created.title = createReqs[i].title
                        /\ created.date = createReqs[i].date
                        /\ created.time = createReqs[i].time
                  /\ Len(events') = Len(events) + 1
                  /\ {events'[k] : k \in DOMAIN events'} = {before[k] : k \in DOMAIN before}
                  /\ IsChronological(events')
                  /\ \A a, b \in DOMAIN events' :
                        (a < b /\ SameDateTime(events'[a], events'[b])) =>
                            PositionOf(before, events'[a].id) < PositionOf(before, events'[b].id)]_vars

C2_Witness ==
    /\ toast = "Event Added"
    /\ Len(events) = 3
    /\ events[3].id = nextId - 1
    /\ SameDateTime(events[1], events[2])
    /\ SameDateTime(events[2], events[3])

\* C3: once loaded, the event list is always ascending by (date, time).
C3_AlwaysChronological == ~loading => IsChronological(events)

TimeLE(s, t) == TupleLE(ParseTime(s), ParseTime(t))

RECURSIVE SelectDate(_, _)
SelectDate(s, date) ==
    IF s = <<>> THEN <<>>
    ELSE IF s[1].date = date THEN <<s[1]>> \o SelectDate(Tail(s), date)
    ELSE SelectDate(Tail(s), date)

\* C4: right after a successful add, grouping by date holds the created event in
\* one group only, the one keyed by its date; that group holds the events of that
\* date, those before the created event not later in time and those after it
\* not earlier.
C4_CreatedEventInItsDateGroup ==
    toast = "Event Added" =>
        LET groups == GroupEventsByDate(events)
            created == events[PositionOf(events, nextId - 1)]
            holding == {k \in DOMAIN groups : created.id \in IdsOf(groups[k].dayEvents)}
        IN  /\ Cardinality(holding) = 1
            /\ \A k \in holding :
                  LET day == groups[k].dayEvents
                      p == PositionOf(day, created.id)
                  IN  /\ groups[k].date = created.date
                      /\ day = SelectDate(events, created.date)
                      /\ Cardinality({q \in DOMAIN day : day[q].id = created.id}) = 1
                      /\ \A q \in DOMAIN day :
                            /\ q < p => TimeLE(day[q].time, created.time)
                            /\ q > p => TimeLE(created.time, day[q].time)

C4_Witness ==
    /\ toast = "Event Added"
    /\ Len(events) = 3
    /\ events[2].id = nextId - 1
    /\ events[1].date # events[2].date
    /\ events[2].date = events[3].date
    /\ events[2].time # events[3].time

\* C5: the step that completes a delete of identifier id leaves the list without
\* the event of that identifier, every other event kept in place; when no listed
\* event has the identifier the list is unchanged and the toast is the success
\* toast.
C5_DeleteRemovesOnlyThatId ==
    [][toast' = "Event Deleted" =>
          \E id \in EventIds :
              /\ deleteReqs[id] > 0
              /\ deleteReqs'[id] = deleteReqs[id] - 1
              /\ IF id \in IdsOf(events)
                 THEN events' = RemoveAt(events, PositionOf(events, id))
                 ELSE events' = events /\ Len(events') = Len(events)]_vars

C5_Witness ==
    /\ toast = "Event Deleted"
    /\ events # <<>>
    /\ \E id \in EventIds : deleteReqs[id] > 0 /\ id \notin IdsOf(events)

\* C6: no two events of the list have the same identifier.
C6_UniqueIds == Cardinality(IdsOf(events)) = Len(events)

C6_Witness == toast = "Event Added" /\ Len(events) = 3

FirstOccurrenceDates(s) ==
    LET RECURSIVE Dates1(_, _)
        Dates1(t, seen) ==
            IF t = <<>> THEN <<>>
            ELSE IF t[1].date \in seen THEN Dates1(Tail(t), seen)
            ELSE <<t[1].date>> \o Dates1(Tail(t), seen \cup {t[1].date})
    IN  Dates1(s, {})

DateBefore(d, e) == ParseDate(d) # ParseDate(e) /\ TupleLE(ParseDate(d), ParseDate(e))

\* C7: each group holds the events of its date in list order, every event is in
\* one group, the dates come in first-occurrence order, and that order is
\* chronological.
C7_GroupsInChronologicalOrder ==
    ~loading =>
        LET groups == GroupEventsByDate(events)
        IN  /\ \A k \in DOMAIN groups :
                  groups[k].dayEvents = SelectDate(events, groups[k].date)
            /\ \A i \in DOMAIN events :
                  Cardinality({k \in DOMAIN groups :
                                  events[i].id \in IdsOf(groups[k].dayEvents)}) = 1
            /\ [k \in DOMAIN groups |-> groups[k].date] = FirstOccurrenceDates(events)
            /\ \A k, l \in DOMAIN groups :
                  k < l => DateBefore(groups[k].date, groups[l].date)

-----------------------------------------------------------------------------
(* Properties of the two renderings *)

HasLineBreak(text) == \E i \in DOMAIN text : text[i] = "\n"

\* text.split('\n')
RECURSIVE SplitLines(_)
SplitLines(text) ==
    IF ~HasLineBreak(text) THEN <<text>>
    ELSE LET k == CHOOSE i \in DOMAIN text :
                      text[i] = "\n" /\ \A j \in 1..(i - 1) : text[j] # "\n"
         IN  <<SubSeq(text, 1, k - 1)>> \o SplitLines(SubSeq(text, k + 1, Len(text)))

RECURSIVE Flatten(_)
Flatten(ss) == IF ss = <<>> THEN <<>> ELSE ss[1] \o Flatten(Tail(ss))

SeparatorLine == <<"---">>

\* the lines one event contributes to the export, its separator and the empty
\* line after it included
BlockLines(event) ==
    SplitLines(event.title) \o <<<<event.date, " at ", event.time>>>>
        \o SplitLines(event.location) \o SplitLines(event.description)
        \o <<SeparatorLine, <<>>>>

\* C8 (as amended): the export of an empty list is the empty string; the export
\* of N events is, in list order, N blocks of title line, "date at time" line,
\* location line and description (more than one line when it holds line breaks),
\* each block followed by the separator line, the last one too; one empty line
\* lies between consecutive blocks and the text ends with a line break.
C8_ExportBlocks ==
    download.done =>
        IF events = <<>> THEN download.content = <<>>
        ELSE SplitLines(download.content) =
                 Flatten([i \in DOMAIN events |-> BlockLines(events[i])])

C8_Witness ==
    /\ download.done
    /\ Len(events) = 2
    /\ HasLineBreak(events[1].description)
    /\ ~HasLineBreak(events[2].description)

\* the four lines of the claim's block
FourLines(event) ==
    <<event.title, <<event.date, " at ", event.time>>, event.location, event.description>>

BlocksSeparated(evs) ==
    Flatten([i \in DOMAIN evs |->
                IF i < Len(evs) THEN FourLines(evs[i]) \o <<SeparatorLine>>
                ELSE FourLines(evs[i])])

\* C8 (as stated): the export of an empty list is the empty string; the export of
\* N events is N blocks of four lines with the separator line between
\* consecutive blocks (a line break may end the text).
C8_FourLineBlocksSeparated ==
    download.done =>
        IF events = <<>> THEN download.content = <<>>
        ELSE \/ SplitLines(download.content) = BlocksSeparated(events)
             \/ SplitLines(download.content) = BlocksSeparated(events) \o <<<<>>>>

DecodeToken(t) ==
    CASE t = "%0A" -> "\n"
      [] t = "%20at%20" -> " at "
      [] t = "08%3A30" -> "08:30"
      [] t = "10%3A00" -> "10:00"
      [] t = "15%3A00" -> "15:00"
      [] t = "My%20Trip%20Itinerary" -> "My Trip Itinerary"
      [] OTHER -> t

DecodeURIComponent(text) == [i \in DOMAIN text |-> DecodeToken(text[i])]

\* C9: the text of the downloaded file is the decoded body of the e-mail.
C9_DownloadEqualsMailBody ==
    (download.done /\ mailto.opened) =>
        download.content = DecodeURIComponent(mailto.body)

-----------------------------------------------------------------------------
(* Properties of the rate lookup *)

\* C10: with the same currency on both sides the rate shown is 1 and the
\* converted amount is the amount itself.
C10_SameCurrencyRateIsOne ==
    fromCurrency = toCurrency =>
        /\ GetCurrentRate(fromCurrency, toCurrency, customRates).kind # "N/A"
        /\ GetCurrentRate(fromCurrency, toCurrency, customRates).v = RateScale
        /\ (amount # "" =>
               convertedAmount = [kind |-> "toFixed(2)", cents |-> 100 * ParseAmount(amount)])

\* the entries of a rate list stored for the ordered pair (from, to)
EntriesFor(rates, from, to) ==
    {i \in DOMAIN rates : rates[i].from_currency = from /\ rates[i].to_currency = to}

\* C11: when the list holds an entry for (to, from) and none for (from, to),
\* getCurrentRate shows the reciprocal of the stored rate rounded to 4 decimals:
\* a toFixed(4) value within half of 0.0001 of 1 / storedRate(to, from).
C11_InverseRate ==
    (/\ fromCurrency # toCurrency
     /\ EntriesFor(exchangeRatesState, fromCurrency, toCurrency) = {}
     /\ EntriesFor(exchangeRatesState, toCurrency, fromCurrency) # {})
    => \A i \in EntriesFor(exchangeRatesState, toCurrency, fromCurrency) :
          LET shown == ApiGetCurrentRate(fromCurrency, toCurrency, exchangeRatesState)
              stored == exchangeRatesState[i].rate
          IN  /\ shown.kind = "toFixed(4)"
              /\ 2 * Abs(shown.v * stored - RateScale * RateScale) <= stored

\* EUR to USD is asked with only USD to EUR = 0.85 stored: 1.1765 is shown
C11_Witness ==
    /\ fromCurrency = "EUR"
    /\ toCurrency = "USD"
    /\ Len(exchangeRatesState) = 1
    /\ exchangeRatesState[1].from_currency = "USD"
    /\ exchangeRatesState[1].rate = 8500
    /\ ApiGetCurrentRate(fromCurrency, toCurrency, exchangeRatesState)
          = [kind |-> "toFixed(4)", v |-> 11765]

\* C12: with from different from to, getCurrentRate shows 'N/A' and the
\* converted amount is 'Rate not available' exactly when the table stores
\* neither (from, to) nor (to, from); with one of them stored both are numeric.
C12_NotFoundIffNeitherStored ==
    fromCurrency # toCurrency =>
        LET stored == \/ <<fromCurrency, toCurrency>> \in DOMAIN customRates
                      \/ <<toCurrency, fromCurrency>> \in DOMAIN customRates
        IN  /\ (GetCurrentRate(fromCurrency, toCurrency, customRates).kind = "N/A")
                  <=> ~stored
            /\ amount # "" => ((convertedAmount = NotAvailable) <=> ~stored)

\* C13: with (from, to) and (to, from) both stored, the rate shown is the
\* stored direct rate and the converted amount is the amount times that rate,
\* whatever rates the updates have left in the two entries.
C13_DirectEntryPreferred ==
    (/\ fromCurrency # toCurrency
     /\ <<fromCurrency, toCurrency>> \in DOMAIN customRates
     /\ <<toCurrency, fromCurrency>> \in DOMAIN customRates)
    => LET direct == customRates[<<fromCurrency, toCurrency>>].rate
       IN  /\ GetCurrentRate(fromCurrency, toCurrency, customRates)
                 = [kind |-> "number", v |-> direct]
           /\ amount # "" =>
                 IF direct = NaN THEN convertedAmount.kind = "NaN"
                 ELSE /\ convertedAmount.kind = "toFixed(2)"
                      /\ 2 * Abs(100 * convertedAmount.cents
                                   - ParseAmount(amount) * direct) <= 100

C15_InvalidRateRejected ==
    [][\A p \in DOMAIN customRates :
          customRates'[p].rate # customRates[p].rate
             => (customRates'[p].rate # NaN /\ customRates'[p].rate > 0)]_vars

\* C16: every stored rate is a number strictly greater than 0.
C16_StoredRatesPositive ==
    \A p \in DOMAIN customRates :
        customRates[p].rate # NaN /\ customRates[p].rate > 0

\* C17: an update changes the entry of one ordered pair only: the table keeps
\* its keys, one entry per ordered pair, and every entry but the updated one,
\* the reverse pair's included, is what it was.
C17_UpdateChangesOneEntry ==
    [][customRates' # customRates =>
          /\ DOMAIN customRates' = DOMAIN customRates
          /\ \E pair \in DOMAIN customRates :
                \A other \in DOMAIN customRates \ {pair} :
                    customRates'[other] = customRates[other]]_vars

\* USD to EUR has been set to 0.9 and EUR to USD is still 1.18
C17_Witness ==
    /\ customRates[<<"USD", "EUR">>].rate = 9000
    /\ customRates[<<"EUR", "USD">>] = exchangeRates[<<"EUR", "USD">>]

\* C18: an update stamps the entry it replaces: whenever a step changes a
\* stored rate, the entry's last-updated value after the step is the day of
\* the update.
C18_UpdateStampsEntry ==
    [][\A p \in DOMAIN customRates :
          customRates'[p].rate # customRates[p].rate
             => customRates'[p].lastUpdated = Today]_vars

-----------------------------------------------------------------------------
(* Properties of the failure handling *)

\* the toasts that report a failed add, delete, rate update or item toggle
FailureToasts ==
    {"Failed to add event", "Failed to delete event",
     "Failed to update exchange rate", "Failed to add item", "Failed to update item"}

\* a step in which one of those requests got its answer
RequestCompleted ==
    \/ Len(createReqs') < Len(createReqs)
    \/ \E id \in EventIds : deleteReqs'[id] < deleteReqs[id]
    \/ Cardinality(updateReqs') < Cardinality(updateReqs)
    \/ Cardinality(addItemReqs') < Cardinality(addItemReqs)
    \/ BagCardinality(toggleReqs') < BagCardinality(toggleReqs)

\* C19: a failed add event, delete event, rate update, item add or item
\* toggle changes nothing: the step that reports the failure leaves the event
\* list, the rate list and the selected trip's items as they were, and every
\* step that completes such a request reports its outcome.
C19_FailedRequestChangesNothing ==
    [][/\ toast' \in FailureToasts =>
             /\ events' = events
             /\ exchangeRatesState' = exchangeRatesState
             /\ selectedTrip' = selectedTrip
       /\ RequestCompleted => toast' # NoToast]_vars

\* the add-item request failed: the typed name is still in the input and the
\* list still has its one item
C19_Witness ==
    /\ toast = "Failed to add item"
    /\ newItem = " Map"
    /\ ~addingItem
    /\ Len(selectedTrip.items) = 1

\* a step in which a POST /convert request got its answer
ConversionCompleted == Cardinality(convertReqs') < Cardinality(convertReqs)

\* C20 (as claimed): a failed convert leaves the rate list, the selected
\* currencies, the amount and a previously computed converted amount unchanged.
C20_FailedConvertChangesNothing ==
    [][toast' = "Conversion Error" =>
          /\ exchangeRatesState' = exchangeRatesState
          /\ <<amount', fromCurrency', toCurrency'>> = <<amount, fromCurrency, toCurrency>>
          /\ convertedAmount.kind = "toString" => convertedAmount' = convertedAmount]_vars

\* C20 (amended): a failed convert leaves the rate list, the selected
\* currencies and the amount unchanged and replaces the converted amount by
\* 'Rate not available'; every conversion request that completes either shows
\* its result or is reported in that way, with the 'Conversion Error' toast.
C20_FailedConvertShowsNotAvailable ==
    [][/\ toast' = "Conversion Error" =>
             /\ exchangeRatesState' = exchangeRatesState
             /\ <<amount', fromCurrency', toCurrency'>> = <<amount, fromCurrency, toCurrency>>
             /\ convertedAmount' = NotAvailable
       /\ ConversionCompleted =>
             \/ convertedAmount'.kind = "toString" /\ toast' = NoToast
             \/ convertedAmount' = NotAvailable /\ toast' = "Conversion Error"]_vars

\* a conversion of 100 failed while the list holds rates
C20_Witness ==
    /\ toast = "Conversion Error"
    /\ convertedAmount = NotAvailable
    /\ amount = "100"
    /\ Len(exchangeRatesState) > 0
    /\ ~converting

-----------------------------------------------------------------------------
(* Properties of the amount, of the request order and of the two variants *)

\* C21: a numeric amount, zero and negative included, is converted like any
\* other (the amount times the stored rate, to the cent); an amount that is
\* not a number gives no numeric-looking and no NaN result.
C21_AmountValidation ==
    /\ (amount # "" /\ Truthy(StoredRate(customRates, <<fromCurrency, toCurrency>>)))
          => /\ convertedAmount.kind = "toFixed(2)"
             /\ 2 * Abs(100 * convertedAmount.cents
                          - ParseAmount(amount)
                              * customRates[<<fromCurrency, toCurrency>>].rate) <= 100
    /\ amount = "" => convertedAmount.kind \notin {"toFixed(2)", "NaN"}

\* the positions at which two lists of the same length differ
Differing(s, t) == {k \in DOMAIN s : s[k] # t[k]}

\* C22: the event list, the rate list and the selected trip's items change
\* only in the step that completes a request successfully (the initial load,
\* a trip load, or an add, delete, rate update or toggle answered by the API),
\* never when the request is issued, and such a step applies one change: one
\* event more, at most one event fewer, one rate replaced, one flag flipped,
\* one item more.
C22_MutatedOnlyOnCompletion ==
    [][/\ events' # events =>
             \/ loading /\ ~loading'
             \/ /\ toast' = "Event Added"
                /\ Len(createReqs') = Len(createReqs) - 1
                /\ Len(events') = Len(events) + 1
             \/ /\ toast' = "Event Deleted"
                /\ \E id \in EventIds : deleteReqs'[id] = deleteReqs[id] - 1
                /\ Len(events') = Len(events) - 1
       /\ exchangeRatesState' # exchangeRatesState =>
             \/ ratesLoading /\ ~ratesLoading'
             \/ /\ toast' = "Rate Updated"
                /\ Cardinality(updateReqs') = Cardinality(updateReqs) - 1
                /\ Len(exchangeRatesState') = Len(exchangeRatesState)
                /\ Cardinality(Differing(exchangeRatesState, exchangeRatesState')) = 1
       /\ selectedTrip' # selectedTrip =>
             \/ tripsLoading /\ ~tripsLoading'
             \/ Cardinality(tripReqs') = Cardinality(tripReqs) - 1
             \/ /\ toast' = "Updated"
                /\ BagCardinality(toggleReqs') = BagCardinality(toggleReqs) - 1
                /\ Len(selectedTrip'.items) = Len(selectedTrip.items)
                /\ Cardinality(Differing(selectedTrip.items, selectedTrip'.items)) = 1
             \/ /\ toast' = "Item Added"
                /\ Cardinality(addItemReqs') = Cardinality(addItemReqs) - 1
                /\ Len(selectedTrip'.items) = Len(selectedTrip.items) + 1
       /\ toast' = "Event Added" => Len(events') = Len(events) + 1
       /\ toast' = "Rate Updated" => exchangeRatesState' # exchangeRatesState
                                     \/ \E req \in updateReqs :
                                           \E i \in DOMAIN exchangeRatesState :
                                               exchangeRatesState[i].rate = req.newRate
       /\ toast' = "Item Added" =>
             Len(selectedTrip'.items) = Len(selectedTrip.items) + 1]_vars

\* a toggle is in flight and the item's flag is still what the API last gave
C22_Witness ==
    /\ BagCardinality(toggleReqs) = 1
    /\ selectedTrip = BeachTrip
    /\ serverTrips = <<BeachTrip>>
    /\ ~tripsLoading

\* C23: when no conversion request is in flight, a conversion has been
\* answered, the amount is a number and no rate has been updated since, the
\* converted amount shown is the API's result for the selected amount and
\* currencies (or the failure text, had that request failed).
C23_LatestResultShown ==
    (/\ convertReqs = {}
     /\ ~ratesLoading
     /\ amount # ""
     /\ convertedAmount.kind # ""
     /\ serverRates \in ServerTables)
    => LET result == ServerConvert(serverRates, ParseAmount(amount),
                                   fromCurrency, toCurrency)
       IN  \/ convertedAmount = NotAvailable
           \/ result.ok /\ convertedAmount = NumberToString(result.cents)

\* the packed flag the API holds for an item of a trip
ServerPacked(tripId, itemId) ==
    LET items == serverTrips[TripIndex(serverTrips, tripId)].items
    IN  items[CHOOSE j \in DOMAIN items : items[j].id = itemId].packed

\* C24: when no toggle request is in flight, every item of the selected trip
\* shows the packed flag that the toggle requests stored on the API, which is
\* the flag last sent for it.
C24_FlagIsLastSent ==
    (/\ toggleReqs = EmptyBag
     /\ ~tripsLoading
     /\ selectedTrip # NoTrip)
    => \A j \in DOMAIN selectedTrip.items :
          LET item == selectedTrip.items[j]
              stored == serverTrips[TripIndex(serverTrips, selectedTrip.id)].items
          IN  (\E k \in DOMAIN stored : stored[k].id = item.id)
                 => item.packed = ServerPacked(selectedTrip.id, item.id)

\* C25: every item shown for the selected trip is an item the API holds for
\* that trip, so an item created for one trip is never listed under another.
C25_ItemAddedToItsTrip ==
    selectedTrip # NoTrip
    => \A j \in DOMAIN selectedTrip.items :
          LET stored == serverTrips[TripIndex(serverTrips, selectedTrip.id)].items
          IN  \E k \in DOMAIN stored : stored[k].id = selectedTrip.items[j].id

\* the events of a list that were created through the form
CreatedEvents(s) == SelectSeq(s, LAMBDA e : e.id >= FirstFreeId)

\* C26: whatever the order in which the answers to add and delete requests
\* arrive, the event list holds exactly the events the API holds (the created
\* ones alone when the initial load failed), in the API's order before the
\* first add and sorted by date and time after it.
C26_NoEffectLost ==
    ~loading =>
        IF nextId = FirstFreeId
        THEN events \in {serverEvents, <<>>}
        ELSE events \in {SortEvents(serverEvents),
                         SortEvents(CreatedEvents(serverEvents))}

\* an event was created and a seed event deleted while another delete request
\* is still to be answered
C26_Witness ==
    /\ toast = "Event Added"
    /\ InFlightDeletes > 0
    /\ Len(events) = 2
    /\ \E i \in DOMAIN events : events[i].id >= FirstFreeId
    /\ Len(serverEvents) = 2

\* the converted amount shown is the API's result for the selected amount and
\* currencies at the API's present rates
ShowsPresentRate ==
    LET result == ServerConvert(serverRates, ParseAmount(amount), fromCurrency, toCurrency)
    IN  result.ok /\ convertedAmount = NumberToString(result.cents)

\* C27: a successful rate update, made while the converted amount shown is
\* the one for the selected amount and currencies and no conversion is in
\* flight, leaves the shown amount in agreement with the updated rate or
\* starts the conversion that will bring it there.
C27_UpdateReconverts ==
    [][(/\ toast' = "Rate Updated"
        /\ amount # ""
        /\ convertReqs = {}
        /\ ShowsPresentRate)
       => (convertReqs' # {} \/ ShowsPresentRate')]_vars

\* the entries of a rate map as the list of entries the API-backed converter holds
RateList(rates) ==
    LET pairs == <<<<"USD", "EUR">>, <<"USD", "GBP">>, <<"USD", "JPY">>,
                   <<"EUR", "USD">>, <<"GBP", "USD">>, <<"JPY", "USD">>>>
    IN  [i \in DOMAIN pairs |->
            [id |-> i, from_currency |-> pairs[i][1], to_currency |-> pairs[i][2],
             rate |-> rates[pairs[i]].rate, last_updated |-> rates[pairs[i]].lastUpdated]]

\* C28: for the rate table of the converter, whatever rates its updates left
\* in it, getCurrentRate of the mock variant and getCurrentRate of the
\* API-backed variant return the same value for every pair of currencies.
C28_VariantsAgree ==
    \A from \in {"USD", "EUR", "GBP", "JPY"} : \A to \in {"USD", "EUR", "GBP", "JPY"} :
        GetCurrentRate(from, to, customRates)
            = ApiGetCurrentRate(from, to, RateList(customRates))

-----------------------------------------------------------------------------
(* Properties of the packing list *)

\* the identifiers toggleItem is tried with: those of the seed items, of the
\* added items, and one that no item has
ToggleIds == {0, 1, 8} \cup {selectedTrip.items[j].id : j \in DOMAIN selectedTrip.items}

\* C30: toggleItem(id) applied to the item list flips the packed flag of the
\* items with that identifier, which is one item at most, and leaves the other
\* items, the order and the count as they are; applied twice it gives the
\* list back; with an identifier no item has it changes nothing.
C30_ToggleFlipsOneItem ==
    LET items == selectedTrip.items
    IN  \A id \in ToggleIds :
          LET toggled == ToggledItems(items, id)
          IN  /\ Len(toggled) = Len(items)
              /\ \A j \in DOMAIN items :
                    toggled[j] = IF items[j].id = id
                                 THEN [items[j] EXCEPT !.packed = ~items[j].packed]
                                 ELSE items[j]
              /\ Cardinality({j \in DOMAIN items : toggled[j] # items[j]}) <= 1
              /\ (\E j \in DOMAIN items : items[j].id = id) => toggled # items
              /\ ToggledItems(toggled, id) = items
              /\ (\A j \in DOMAIN items : items[j].id # id) => toggled = items

\* the second of three items has been toggled, the others have not
C30_Witness ==
    /\ Len(selectedTrip.items) = 3
    /\ ~selectedTrip.items[1].packed
    /\ selectedTrip.items[2].packed
    /\ ~selectedTrip.items[3].packed
    /\ ~tripsLoading

====
